---------------------------- MODULE Spec2Model ----------------------------
(***************************************************************************)
(* A model of gigarandr.py: one run of main(), from                        *)
(* ensure_config_directory() to the process exit.                          *)
(*                                                                         *)
(* Python strings are sequences of one-character strings, so that the      *)
(* string operations of the source (startswith, split, "in", int(), str()) *)
(* are computed and not assumed.  Python's None is the value None below    *)
(* for strings and NoneInt for numbers.                                    *)
(***************************************************************************)
EXTENDS Integers, Sequences, FiniteSets, TLC

\* -------------------------------------------------------------------------
\* Bounds of the model
\* -------------------------------------------------------------------------
MaxLines == 2      \* lines of `xrandr --query` output
MaxEntries == 2    \* entries of config["monitors"]
MaxHooks == 2      \* commands of one hook stage
MaxExternal == 3   \* largest N of the "external-N" keywords tried

\* -------------------------------------------------------------------------
\* Python values
\* -------------------------------------------------------------------------
None == <<"None">>
NoneInt == -1

Digits == <<"0", "1", "2", "3", "4", "5", "6", "7", "8", "9">>
DigitSet == {Digits[i] : i \in 1..10}
DigitVal(c) == (CHOOSE i \in 1..10 : Digits[i] = c) - 1
Whitespace == {" ", "\t", "\n"}

\* s.startswith(p)
StartsWith(s, p) == Len(s) >= Len(p) /\ SubSeq(s, 1, Len(p)) = p

\* sub in s
Contains(s, sub) ==
    \E i \in 1..(Len(s) - Len(sub) + 1) : SubSeq(s, i, i + Len(sub) - 1) = sub

\* s.count(c) for a one-character c
Count(s, c) == Cardinality({i \in 1..Len(s) : s[i] = c})

\* s.find(c) + 1, 0 when absent
FindChar(s, c) ==
    IF \E i \in 1..Len(s) : s[i] = c
    THEN CHOOSE i \in 1..Len(s) : s[i] = c /\ \A j \in 1..(i - 1) : s[j] # c
    ELSE 0

\* s.split(c, 1)[0] and s.split(c, 1)[1] when c occurs in s
SplitHead(s, c) == IF FindChar(s, c) = 0 THEN s ELSE SubSeq(s, 1, FindChar(s, c) - 1)
SplitRest(s, c) == SubSeq(s, FindChar(s, c) + 1, Len(s))

\* s.strip()
RECURSIVE LStrip(_)
LStrip(s) == IF s # <<>> /\ s[1] \in Whitespace THEN LStrip(Tail(s)) ELSE s
RECURSIVE RStrip(_)
RStrip(s) ==
    IF s # <<>> /\ s[Len(s)] \in Whitespace THEN RStrip(SubSeq(s, 1, Len(s) - 1)) ELSE s
Strip(s) == RStrip(LStrip(s))

\* s.split(): the maximal runs of non-whitespace characters
\* the index of the first whitespace character of t, Len(t) + 1 when none
FirstWs(t) ==
    IF \E i \in 1..Len(t) : t[i] \in Whitespace
    THEN CHOOSE i \in 1..Len(t) :
            t[i] \in Whitespace /\ \A j \in 1..(i - 1) : t[j] \notin Whitespace
    ELSE Len(t) + 1

RECURSIVE SplitStripped(_)
SplitStripped(t) ==
    IF t = <<>> THEN <<>>
    ELSE <<SubSeq(t, 1, FirstWs(t) - 1)>>
         \o SplitStripped(LStrip(SubSeq(t, FirstWs(t), Len(t))))

SplitWs(s) == SplitStripped(LStrip(s))

\* int(s): surrounding whitespace, one optional sign, digits with single
\* underscores between them; anything else raises ValueError (ok = FALSE)
RECURSIVE DigitsValue(_, _)
DigitsValue(s, acc) ==
    IF s = <<>> THEN acc
    ELSE IF s[1] = "_" THEN DigitsValue(Tail(s), acc)
    ELSE DigitsValue(Tail(s), 10 * acc + DigitVal(s[1]))

IsSigned(t) == t # <<>> /\ t[1] \in {"+", "-"}

WellFormedDigits(body) ==
    /\ body # <<>>
    /\ \A i \in 1..Len(body) : body[i] \in DigitSet \cup {"_"}
    /\ body[1] # "_"
    /\ body[Len(body)] # "_"
    /\ \A i \in 1..(Len(body) - 1) : ~(body[i] = "_" /\ body[i + 1] = "_")

IntOfDigits(negative, body) ==
    IF WellFormedDigits(body)
    THEN [ok |-> TRUE,
          val |-> IF negative THEN 0 - DigitsValue(body, 0) ELSE DigitsValue(body, 0)]
    ELSE [ok |-> FALSE, val |-> 0]

IntOfStripped(t) ==
    IF IsSigned(t) THEN IntOfDigits(t[1] = "-", Tail(t)) ELSE IntOfDigits(FALSE, t)

PyInt(s) == IntOfStripped(Strip(s))

\* str(n) for an integer n
RECURSIVE NatToStr(_)
NatToStr(n) == IF n < 10 THEN <<Digits[n + 1]>> ELSE NatToStr(n \div 10) \o <<Digits[(n % 10) + 1]>>
PyStr(n) == IF n < 0 THEN <<"-">> \o NatToStr(0 - n) ELSE NatToStr(n)

\* Python truthiness of an optional string and of an optional number
TruthyStr(s) == s # None /\ s # <<>>
TruthyInt(n) == n # NoneInt /\ n # 0

\* -------------------------------------------------------------------------
\* String constants of the source
\* -------------------------------------------------------------------------
K_laptop == <<"l", "a", "p", "t", "o", "p">>
K_largest == <<"l", "a", "r", "g", "e", "s", "t">>
K_smallest == <<"s", "m", "a", "l", "l", "e", "s", "t">>
K_external_prefix == <<"e", "x", "t", "e", "r", "n", "a", "l", "-">>
S_eDP == <<"e", "D", "P">>
S_LVDS == <<"L", "V", "D", "S">>
S_connected == <<" ", "c", "o", "n", "n", "e", "c", "t", "e", "d">>
S_dashes == <<"-", "-">>
T_xrandr == <<"x", "r", "a", "n", "d", "r">>
T_output == <<"-", "-", "o", "u", "t", "p", "u", "t">>
T_auto == <<"-", "-", "a", "u", "t", "o">>
T_primary == <<"-", "-", "p", "r", "i", "m", "a", "r", "y">>
T_rate == <<"-", "-", "r", "a", "t", "e">>

\* -------------------------------------------------------------------------
\* get_connected_monitors: parsing of the `xrandr --query` output
\* -------------------------------------------------------------------------
\* the loop over the parts of one line that looks for the resolution
\* the test of one part of the line
is_resolution_part(part) ==
    /\ Contains(part, <<"x">>)
    /\ (Contains(part, <<"+">>) \/ Count(part, "x") = 1)
    /\ Contains(SplitHead(part, "+"), <<"x">>)

RECURSIVE find_resolution(_)
find_resolution(parts) ==
    IF parts = <<>> THEN None
    ELSE IF is_resolution_part(parts[1]) THEN SplitHead(parts[1], "+")
    ELSE find_resolution(Tail(parts))

\* the record appended to monitors; the unpacking of resolution.split('x')
\* and the two int() calls raise ValueError unless there is exactly one 'x'
\* between two integers
monitor_record(name, sized, w, h) ==
    [name |-> name,
     width |-> IF sized /\ w.ok /\ h.ok THEN w.val ELSE NoneInt,
     height |-> IF sized /\ w.ok /\ h.ok THEN h.val ELSE NoneInt]

sized_record(name, resolution) ==
    IF TruthyStr(resolution) /\ Count(resolution, "x") = 1
    THEN monitor_record(name, TRUE, PyInt(SplitHead(resolution, "x")),
                        PyInt(SplitRest(resolution, "x")))
    ELSE monitor_record(name, FALSE, [ok |-> FALSE, val |-> 0], [ok |-> FALSE, val |-> 0])

parts_record(parts) == sized_record(parts[1], find_resolution(parts))

\* the record appended for one line that contains " connected"
parse_monitor_line(line) == parts_record(SplitWs(line))

RECURSIVE parse_query_output(_)
parse_query_output(lines) ==
    IF lines = <<>> THEN <<>>
    ELSE (IF Contains(lines[1], S_connected)
          THEN <<parse_monitor_line(lines[1])>> ELSE <<>>)
         \o parse_query_output(Tail(lines))

\* -------------------------------------------------------------------------
\* resolve_monitor_keyword
\* -------------------------------------------------------------------------
LogRecord(level, line) == [level |-> level, line |-> line]

is_laptop_name(name) == Contains(name, S_eDP) \/ Contains(name, S_LVDS)

has_size(m) == TruthyInt(m.width) /\ TruthyInt(m.height)

Area(m) == m.width * m.height

\* PyMax with the comparison inverted
PyMax_inverted(seq) ==
    seq[CHOOSE i \in 1..Len(seq) :
            /\ \A j \in 1..Len(seq) : Area(seq[i]) <= Area(seq[j])
            /\ \A j \in 1..(i - 1) : Area(seq[j]) > Area(seq[i])]

\* max(seq, key=Area) and min(seq, key=Area): the first extremal element
PyMax(seq) ==
    seq[CHOOSE i \in 1..Len(seq) :
            /\ \A j \in 1..Len(seq) : Area(seq[i]) >= Area(seq[j])
            /\ \A j \in 1..(i - 1) : Area(seq[j]) < Area(seq[i])]
PyMin(seq) ==
    seq[CHOOSE i \in 1..Len(seq) :
            /\ \A j \in 1..Len(seq) : Area(seq[i]) <= Area(seq[j])
            /\ \A j \in 1..(i - 1) : Area(seq[j]) > Area(seq[i])]

\* the range test of the "external-N" branch
external_in_range(external_number, external_monitors) ==
    0 < external_number /\ external_number <= Len(external_monitors)

\* external_monitors_of without the laptop filter
external_monitors_unfiltered(monitors) == monitors

\* the monitors the "external-N" branch indexes
external_monitors_of(monitors) ==
    SelectSeq(monitors, LAMBDA m : ~is_laptop_name(m.name))

\* the "laptop" branch
first_or_none(hits) ==
    IF hits # <<>>
    THEN [name |-> hits[1].name, log |-> <<>>]
    ELSE [name |-> None, log |-> <<>>]

resolve_laptop(monitors) ==
    first_or_none(SelectSeq(monitors, LAMBDA m : is_laptop_name(m.name)))

\* the "largest" and "smallest" branches
largest_of(monitors_with_size) ==
    IF monitors_with_size # <<>>
    THEN [name |-> PyMax(monitors_with_size).name, log |-> <<>>]
    ELSE [name |-> None, log |-> <<LogRecord("WARNING", 169)>>]

resolve_largest(monitors) == largest_of(SelectSeq(monitors, has_size))

smallest_of(monitors_with_size) ==
    IF monitors_with_size # <<>>
    THEN [name |-> PyMin(monitors_with_size).name, log |-> <<>>]
    ELSE [name |-> None, log |-> <<LogRecord("WARNING", 175)>>]

resolve_smallest(monitors) == smallest_of(SelectSeq(monitors, has_size))

\* the "external-N" branch
external_lookup(external_number, external_monitors) ==
    IF ~external_number.ok
    THEN [name |-> None, log |-> <<LogRecord("ERROR", 189)>>]
    ELSE IF external_in_range(external_number.val, external_monitors)
    THEN [name |-> external_monitors[external_number.val].name, log |-> <<>>]
    ELSE [name |-> None, log |-> <<LogRecord("WARNING", 187)>>]

resolve_external(monitors, keyword) ==
    external_lookup(PyInt(SplitRest(keyword, "-")), external_monitors_of(monitors))

\* the literal-name branch
resolve_literal(monitors, keyword) ==
    IF \E i \in 1..Len(monitors) : monitors[i].name = keyword
    THEN [name |-> keyword, log |-> <<>>]
    ELSE [name |-> None, log |-> <<LogRecord("WARNING", 195)>>]

\* result: the returned name (or None) and the log records emitted
resolve_monitor_keyword(monitors, keyword) ==
    IF keyword = K_laptop THEN resolve_laptop(monitors)
    ELSE IF keyword = K_largest THEN resolve_largest(monitors)
    ELSE IF keyword = K_smallest THEN resolve_smallest(monitors)
    ELSE IF StartsWith(keyword, K_external_prefix) THEN resolve_external(monitors, keyword)
    ELSE resolve_literal(monitors, keyword)


\* -------------------------------------------------------------------------
\* manage_monitors: the command built from the configuration
\* -------------------------------------------------------------------------
\* the directives of one resolved entry up to and including --primary
output_directives(name, monitor_config) ==
    <<T_output, name, T_auto>> \o (IF monitor_config.primary THEN <<T_primary>> ELSE <<>>)

\* the --rate directive of one entry
rate_directives(monitor_config) ==
    IF TruthyInt(monitor_config.refresh_rate)
    THEN <<T_rate, PyStr(monitor_config.refresh_rate)>>
    ELSE <<>>

\* the position clause of an entry whose name resolved to `resolved.name`:
\* `ref` is the result of resolving the reference keyword
position_directives(monitor_config, resolved, ref) ==
    IF ~TruthyStr(ref.name)
    THEN \* line 229: continue, the rest of the iteration is skipped
         [tokens |-> output_directives(resolved.name, monitor_config),
          log |-> resolved.log \o ref.log \o <<LogRecord("WARNING", 225)>>]
    ELSE [tokens |-> output_directives(resolved.name, monitor_config)
                     \o <<S_dashes \o SplitHead(monitor_config.position, " "), ref.name>>
                     \o rate_directives(monitor_config),
          log |-> resolved.log \o ref.log]

\* the iteration for an entry, given the result of resolving its name
resolved_entry_directives(monitors, monitor_config, resolved) ==
    IF ~TruthyStr(resolved.name)
    THEN [tokens |-> <<>>, log |-> resolved.log \o <<LogRecord("WARNING", 214)>>]
    ELSE IF ~TruthyStr(monitor_config.position)
    THEN [tokens |-> output_directives(resolved.name, monitor_config)
                     \o rate_directives(monitor_config),
          log |-> resolved.log]
    ELSE IF ~Contains(monitor_config.position, <<" ">>)
    THEN [tokens |-> output_directives(resolved.name, monitor_config)
                     \o rate_directives(monitor_config),
          log |-> resolved.log \o <<LogRecord("WARNING", 232)>>]
    ELSE position_directives(monitor_config, resolved,
            resolve_monitor_keyword(monitors, SplitRest(monitor_config.position, " ")))

\* one iteration of the loop over config["monitors"]: the tokens appended to
\* commands and the log records emitted
entry_directives(monitors, monitor_config) ==
    resolved_entry_directives(monitors, monitor_config,
                              resolve_monitor_keyword(monitors, monitor_config.name))

\* commands += tokens, with the log records of the iteration
extend_commands(acc, d) ==
    [commands |-> acc.commands \o d.tokens, log |-> acc.log \o d.log]

\* build_commands walking the entries from the last to the first
RECURSIVE build_commands_reversed(_, _, _)
build_commands_reversed(monitors, monitor_configs, acc) ==
    IF monitor_configs = <<>> THEN acc
    ELSE build_commands_reversed(
            monitors, SubSeq(monitor_configs, 1, Len(monitor_configs) - 1),
            extend_commands(acc, entry_directives(monitors,
                                                  monitor_configs[Len(monitor_configs)])))

\* the loop over config["monitors"], starting from commands = ['xrandr']
RECURSIVE build_commands(_, _, _)
build_commands(monitors, monitor_configs, acc) ==
    IF monitor_configs = <<>> THEN acc
    ELSE build_commands(monitors, Tail(monitor_configs),
                        extend_commands(acc, entry_directives(monitors, monitor_configs[1])))

\* has_directives counting the leading 'xrandr' as a directive
has_directives_off_by_one(commands) == Len(commands) > 0

\* the test that decides whether xrandr is run
has_directives(commands) == Len(commands) > 1

\* -------------------------------------------------------------------------
\* Inputs of a run
\* -------------------------------------------------------------------------
L_eDP1 == <<"e", "D", "P", "-", "1", " ", "c", "o", "n", "n", "e", "c", "t", "e", "d", " ", "p", "r", "i", "m", "a", "r", "y", " ", "1", "9", "2", "0", "x", "1", "0", "8", "0", "+", "0", "+", "0">>
L_HDMI1 == <<"H", "D", "M", "I", "-", "1", " ", "c", "o", "n", "n", "e", "c", "t", "e", "d", " ", "2", "5", "6", "0", "x", "1", "4", "4", "0", "+", "1", "9", "2", "0", "+", "0">>
L_DP1 == <<"D", "P", "-", "1", " ", "d", "i", "s", "c", "o", "n", "n", "e", "c", "t", "e", "d", " ", "(", "n", "o", "r", "m", "a", "l", " ", "x", " ", "a", "x", "i", "s", ")">>
L_DP2 == <<"D", "P", "-", "2", " ", "c", "o", "n", "n", "e", "c", "t", "e", "d", " ", "(", "n", "o", "r", "m", "a", "l", " ", "x", " ", "a", "x", "i", "s", ")">>
N_eDP1 == <<"e", "D", "P", "-", "1">>
N_HDMI1 == <<"H", "D", "M", "I", "-", "1">>
N_DP9 == <<"D", "P", "-", "9">>
P_below_largest == <<"b", "e", "l", "o", "w", " ", "l", "a", "r", "g", "e", "s", "t">>
P_above_laptop == <<"a", "b", "o", "v", "e", " ", "l", "a", "p", "t", "o", "p">>
P_above == <<"a", "b", "o", "v", "e">>
P_leftof_external3 == <<"l", "e", "f", "t", "-", "o", "f", " ", "e", "x", "t", "e", "r", "n", "a", "l", "-", "3">>
K_external_x == <<"e", "x", "t", "e", "r", "n", "a", "l", "-", "x">>
K_external_plus1 == <<"e", "x", "t", "e", "r", "n", "a", "l", "-", "+", "1">>
K_external_sp1 == <<"e", "x", "t", "e", "r", "n", "a", "l", "-", " ", "1">>
K_external_1_0 == <<"e", "x", "t", "e", "r", "n", "a", "l", "-", "1", "_", "0">>
T_below == <<"-", "-", "b", "e", "l", "o", "w">>

\* sequences of length at most n, without repetition, over the set S
RECURSIVE SeqsUpTo(_, _)
SeqsUpTo(S, n) ==
    IF n = 0 THEN {<<>>}
    ELSE LET shorter == SeqsUpTo(S, n - 1)
         IN shorter \cup {Append(q, x) : q \in shorter, x \in S}

NoRepeat(q) == \A i, j \in 1..Len(q) : i # j => q[i] # q[j]

\* what `xrandr --query` may print: one line per output
XrandrLines == {L_eDP1, L_HDMI1, L_DP1, L_DP2}
XrandrOutputs == {q \in SeqsUpTo(XrandrLines, MaxLines) : NoRepeat(q)}

\* the inventories get_connected_monitors can return
Inventories == {parse_query_output(out) : out \in XrandrOutputs}

ExternalKeyword(n) == K_external_prefix \o PyStr(n)

Entry(name, primary, position, refresh_rate) ==
    [name |-> name, primary |-> primary, position |-> position,
     refresh_rate |-> refresh_rate]

\* the two entries of default_config
DefaultEntry1 == Entry(K_laptop, TRUE, P_below_largest, NoneInt)
DefaultEntry2 == Entry(K_largest, FALSE, P_above_laptop, NoneInt)

\* entries of config["monitors"] tried
MonitorEntries ==
    { Entry(K_laptop, FALSE, P_below_largest, NoneInt),
      Entry(K_largest, TRUE, None, NoneInt),
      Entry(ExternalKeyword(MaxExternal), TRUE, P_above_laptop, 60),
      Entry(K_laptop, TRUE, P_above, 60),
      Entry(K_largest, TRUE, P_leftof_external3, 60),
      Entry(N_HDMI1, FALSE, None, 144) }

HookCommands == <<"hook1", "hook2", "hook3", "hook4">>
HookLists == {<<>>, SubSeq(HookCommands, 1, MaxHooks)}

DefaultHooks == [presync |-> <<"echo presync">>, sync |-> <<"echo sync">>,
                 postsync |-> <<"echo postsync">>]
NoHooks == [presync |-> <<>>, sync |-> <<>>, postsync |-> <<>>]

\* default_config of ensure_config_directory
default_config == [monitors |-> <<DefaultEntry1, DefaultEntry2>>, hooks |-> DefaultHooks]

\* configuration files tried: every list of entries without hooks, and a few
\* lists of entries with every choice of hooks
ConfigFiles ==
    {[monitors |-> ms, hooks |-> NoHooks] : ms \in SeqsUpTo(MonitorEntries, MaxEntries)}
    \cup {[monitors |-> ms, hooks |-> [presync |-> a, sync |-> b, postsync |-> c]] :
            ms \in {<<>>, <<DefaultEntry1, DefaultEntry2>>},
            a \in HookLists, b \in HookLists, c \in HookLists}

Missing == [status |-> "missing"]
Corrupt == [status |-> "corrupt"]
File(content) == [status |-> "ok", content |-> content]

\* state files tried: the set of names the saved mapping sends to true
StateFiles == {Missing, Corrupt, File({N_HDMI1, N_DP9})}

\* -------------------------------------------------------------------------
\* The run of main()
\* -------------------------------------------------------------------------
VARIABLES
    pc,          \* the phase of main() that runs next
    configFile,  \* CONFIG_FILE on disk
    stateFile,   \* STATE_FILE on disk
    config,      \* main's local config
    state,       \* main's local state
    monitors,    \* main's local monitors
    commands,    \* manage_monitors' local commands
    trace,       \* the processes run and the files written, in order
    log,         \* the log records emitted, in order
    exitCode,    \* the exit status, NoneInt while the process runs
    keyword,     \* argument of a direct call of resolve_monitor_keyword
    resolved     \* result of that call

vars == <<pc, configFile, stateFile, config, state, monitors, commands, trace,
          log, exitCode, keyword, resolved>>

NoConfig == [monitors |-> <<>>, hooks |-> NoHooks]

Init ==
    /\ pc = "ensure_config_directory"
    /\ configFile \in {Missing, Corrupt} \cup {File(c) : c \in ConfigFiles}
    /\ stateFile \in StateFiles
    /\ config = NoConfig
    /\ state = {}
    /\ monitors = <<>>
    /\ commands = <<>>
    /\ trace = <<>>
    /\ log = <<>>
    /\ exitCode = NoneInt
    /\ keyword = None
    /\ resolved = None

\* sys.exit(code)
Exit(code) == pc' = "exited" /\ exitCode' = code

ensure_config_directory ==
    /\ pc = "ensure_config_directory"
    /\ configFile' = IF configFile = Missing THEN File(default_config) ELSE configFile
    /\ stateFile' = IF stateFile = Missing THEN File({}) ELSE stateFile
    /\ pc' = "load_config"
    /\ UNCHANGED <<config, state, monitors, commands, trace, log, exitCode, keyword, resolved>>

load_config ==
    /\ pc = "load_config"
    /\ IF configFile.status = "ok"
       THEN /\ config' = configFile.content
            /\ pc' = "load_state"
            /\ UNCHANGED <<log, exitCode>>
       ELSE /\ log' = Append(log, LogRecord("ERROR", IF configFile.status = "corrupt" THEN 63 ELSE 66))
            /\ Exit(1)
            /\ UNCHANGED config
    /\ UNCHANGED <<configFile, stateFile, state, monitors, commands, trace, keyword, resolved>>

load_state ==
    /\ pc = "load_state"
    /\ IF stateFile.status = "ok"
       THEN state' = stateFile.content /\ UNCHANGED log
       ELSE /\ state' = {}
            /\ log' = Append(log, IF stateFile.status = "corrupt"
                                  THEN LogRecord("ERROR", 76) ELSE LogRecord("WARNING", 79))
    /\ pc' = "presync"
    /\ UNCHANGED <<configFile, stateFile, config, monitors, commands, trace, exitCode, keyword, resolved>>

\* hook_records without the try/except: the first failing command ends the loop
RECURSIVE hook_records_abort(_, _, _, _)
hook_records_abort(stage, cmds, succeeds, k) ==
    IF k > Len(cmds) THEN [trace |-> <<>>, log |-> <<>>]
    ELSE LET rest == IF succeeds[k] THEN hook_records_abort(stage, cmds, succeeds, k + 1)
                     ELSE [trace |-> <<>>, log |-> <<>>]
         IN [trace |-> <<[op |-> "hook", stage |-> stage, command |-> cmds[k],
                          ok |-> succeeds[k]]>> \o rest.trace,
             log |-> <<LogRecord("INFO", 96)>> \o rest.log]

\* the records run_hook leaves in trace and log for its commands, given which
\* of them succeed
RECURSIVE hook_records(_, _, _, _)
hook_records(stage, cmds, succeeds, k) ==
    IF k > Len(cmds) THEN [trace |-> <<>>, log |-> <<>>]
    ELSE LET rest == hook_records(stage, cmds, succeeds, k + 1)
         IN [trace |-> <<[op |-> "hook", stage |-> stage, command |-> cmds[k],
                          ok |-> succeeds[k]]>> \o rest.trace,
             log |-> <<LogRecord("INFO", 96)>>
                     \o (IF succeeds[k] THEN <<>> ELSE <<LogRecord("ERROR", 101)>>)
                     \o rest.log]

run_hook(stage, next) ==
    /\ pc = stage
    /\ \E succeeds \in [1..Len(config.hooks[stage]) -> BOOLEAN] :
         LET r == hook_records(stage, config.hooks[stage], succeeds, 1)
         IN trace' = trace \o r.trace /\ log' = log \o r.log
    /\ IF next = "exited" THEN Exit(0) ELSE pc' = next /\ UNCHANGED exitCode
    /\ UNCHANGED <<configFile, stateFile, config, state, monitors, commands, keyword, resolved>>

run_hook_presync == run_hook("presync", "get_connected_monitors")
run_hook_sync == run_hook("sync", "save_state")
run_hook_postsync == run_hook("postsync", "exited")

\* inventory_is_empty never holding
inventory_is_empty_never(inventory) == FALSE

\* main's test `if not monitors`
inventory_is_empty(inventory) == inventory = <<>>

\* monitors = get_connected_monitors(), and main's test of the result
get_connected_monitors ==
    /\ pc = "get_connected_monitors"
    /\ \/ \* xrandr --query exits non-zero
          /\ trace' = Append(trace, [op |-> "query", ok |-> FALSE])
          /\ log' = Append(log, LogRecord("ERROR", 116))
          /\ Exit(1)
          /\ UNCHANGED monitors
       \/ \E output \in XrandrOutputs :
            /\ trace' = Append(trace, [op |-> "query", ok |-> TRUE])
            /\ monitors' = parse_query_output(output)
            /\ IF inventory_is_empty(monitors')
               THEN log' = Append(log, LogRecord("ERROR", 270)) /\ Exit(1)
               ELSE pc' = "manage_monitors" /\ UNCHANGED <<log, exitCode>>
    /\ UNCHANGED <<configFile, stateFile, config, state, commands, keyword, resolved>>

\* apply_failed with the non-zero exit ignored
apply_failed_ignored(outcome) == FALSE

\* whether subprocess.run(commands, check=True) raises CalledProcessError
apply_failed(outcome) == outcome = "fail"

\* lines 237-254: run xrandr with the built commands, or warn
apply_commands(built) ==
    /\ commands' = built.commands
    /\ IF has_directives(built.commands)
       THEN \E outcome \in {"ok", "stderr", "fail"} :
              /\ trace' = Append(trace, [op |-> "apply", argv |-> built.commands,
                                         ok |-> outcome # "fail"])
              /\ log' = log \o built.log \o <<LogRecord("INFO", 238)>>
                        \o (CASE outcome = "ok" -> <<>>
                              [] outcome = "stderr" -> <<LogRecord("WARNING", 249)>>
                              [] outcome = "fail" -> <<LogRecord("ERROR", 251)>>)
              /\ IF apply_failed(outcome) THEN Exit(1)
                 ELSE pc' = "sync" /\ UNCHANGED exitCode
       ELSE /\ log' = log \o built.log \o <<LogRecord("WARNING", 254)>>
            /\ pc' = "sync"
            /\ UNCHANGED <<trace, exitCode>>

manage_monitors ==
    /\ pc = "manage_monitors"
    /\ apply_commands(build_commands(monitors, config.monitors,
                                     [commands |-> <<T_xrandr>>, log |-> <<>>]))
    /\ UNCHANGED <<configFile, stateFile, config, state, monitors, keyword, resolved>>

\* save_state({monitor["name"]: True for monitor in monitors})
save_state ==
    /\ pc = "save_state"
    /\ LET new_state == {monitors[i].name : i \in 1..Len(monitors)}
       IN \/ /\ stateFile' = File(new_state)
             /\ trace' = Append(trace, [op |-> "save", state |-> new_state, ok |-> TRUE])
             /\ UNCHANGED log
          \/ \* the write raises: the file is untouched or left truncated
             /\ stateFile' \in {stateFile, Corrupt}
             /\ trace' = Append(trace, [op |-> "save", state |-> new_state, ok |-> FALSE])
             /\ log' = Append(log, LogRecord("ERROR", 89))
    /\ pc' = "postsync"
    /\ UNCHANGED <<configFile, config, state, monitors, commands, exitCode, keyword, resolved>>

main ==
    \/ ensure_config_directory
    \/ load_config
    \/ load_state
    \/ run_hook_presync
    \/ get_connected_monitors
    \/ manage_monitors
    \/ run_hook_sync
    \/ save_state
    \/ run_hook_postsync

Next == main

Spec == Init /\ [][Next]_vars


\* -------------------------------------------------------------------------
\* Direct calls of resolve_monitor_keyword
\* -------------------------------------------------------------------------
\* suffixes int() rejects
NonNumericExternalKeywords == {K_external_x, K_external_prefix}

Keywords ==
    {K_laptop, K_largest, K_smallest, N_HDMI1, N_DP9, N_eDP1, <<>>,
     K_external_plus1, K_external_sp1, K_external_1_0}
    \cup NonNumericExternalKeywords
    \cup {ExternalKeyword(n) : n \in (0 - 1)..MaxExternal}

InitResolve ==
    /\ pc = "resolve_call"
    /\ monitors \in Inventories
    /\ keyword \in Keywords
    /\ resolved = None
    /\ configFile = Missing
    /\ stateFile = Missing
    /\ config = NoConfig
    /\ state = {}
    /\ commands = <<>>
    /\ trace = <<>>
    /\ log = <<>>
    /\ exitCode = NoneInt

resolve_call ==
    /\ pc = "resolve_call"
    /\ LET r == resolve_monitor_keyword(monitors, keyword)
       IN resolved' = r.name /\ log' = log \o r.log
    /\ pc' = "resolve_return"
    /\ UNCHANGED <<configFile, stateFile, config, state, monitors, commands, trace,
                   exitCode, keyword>>

NextResolve == resolve_call

SpecResolve == InitResolve /\ [][NextResolve]_vars

\* -------------------------------------------------------------------------
\* Properties
\* -------------------------------------------------------------------------
TraceIdx == 1..Len(trace)
ApplyEvents == {i \in TraceIdx : trace[i].op = "apply"}
SaveEvents == {i \in TraceIdx : trace[i].op = "save"}
HookEvents(stage) == {i \in TraceIdx : trace[i].op = "hook" /\ trace[i].stage = stage}
ApplyFailed == \E i \in ApplyEvents : ~trace[i].ok
QueryReturned == \E i \in TraceIdx : trace[i].op = "query" /\ trace[i].ok
AfterManage == commands # <<>>
Resolves(e) == TruthyStr(resolve_monitor_keyword(monitors, e.name).name)
InventoryNames == {monitors[i].name : i \in 1..Len(monitors)}

\* C1: when the layout-apply utility exits non-zero the process terminates
\* with a non-zero exit status, save_state is never called, and neither the
\* sync nor the postsync hooks are run.
C1_ApplyFailureIsFatal ==
    ApplyFailed =>
        /\ pc = "exited"
        /\ exitCode \notin {NoneInt, 0}
        /\ SaveEvents = {}
        /\ HookEvents("sync") = {}
        /\ HookEvents("postsync") = {}

C1_Witness ==
    /\ ApplyFailed
    /\ pc = "exited"
    /\ config.hooks.sync # <<>>
    /\ config.hooks.postsync # <<>>

\* C2: when get_connected_monitors returns an empty inventory the process
\* exits non-zero before anything is configured: xrandr is never run to apply
\* a layout, save_state is never called, and neither the sync nor the
\* postsync hooks are run.
C2_EmptyInventoryIsFatal ==
    (QueryReturned /\ monitors = <<>>) =>
        /\ pc = "exited"
        /\ exitCode \notin {NoneInt, 0}
        /\ ApplyEvents = {}
        /\ SaveEvents = {}
        /\ HookEvents("sync") = {}
        /\ HookEvents("postsync") = {}

C2_Witness ==
    /\ QueryReturned
    /\ monitors = <<>>
    /\ pc = "exited"
    /\ config.monitors # <<>>
    /\ config.hooks.sync # <<>>

\* the external effects of a run, without their outcomes
Shape(e) == IF e.op = "hook" THEN <<"hook", e.stage, e.command>> ELSE <<e.op>>
HookShapes(stage) ==
    [k \in 1..Len(config.hooks[stage]) |-> <<"hook", stage, config.hooks[stage][k]>>]
ExpectedShapes ==
    HookShapes("presync") \o <<<<"query">>>>
    \o (IF \E i \in 1..Len(config.monitors) : Resolves(config.monitors[i])
        THEN <<<<"apply">>>> ELSE <<>>)
    \o HookShapes("sync") \o <<<<"save">>>> \o HookShapes("postsync")
IsPrefix(p, q) == Len(p) <= Len(q) /\ SubSeq(q, 1, Len(p)) = p

\* C3: hook failures are not fatal.  Whatever hook commands fail, a run whose
\* config loads, whose inventory is not empty and whose apply step does not
\* fail runs every configured command of each stage in declared order, in the
\* order presync hooks, inventory read, apply, sync hooks, state save,
\* postsync hooks, and exits with status 0.
C3_HookFailuresNotFatal ==
    (configFile.status = "ok" /\ QueryReturned /\ monitors # <<>> /\ ~ApplyFailed) =>
        /\ IsPrefix([i \in TraceIdx |-> Shape(trace[i])], ExpectedShapes)
        /\ pc = "exited" =>
              /\ exitCode = 0
              /\ [i \in TraceIdx |-> Shape(trace[i])] = ExpectedShapes

C3_Witness ==
    /\ pc = "exited"
    /\ exitCode = 0
    /\ ApplyEvents # {}
    /\ \A stage \in {"presync", "sync", "postsync"} :
          /\ Len(config.hooks[stage]) >= 2
          /\ \E i \in HookEvents(stage) : ~trace[i].ok /\ trace[i].command = config.hooks[stage][1]

\* the directive groups of commands: one per --output token
RECURSIVE SortedSeq(_)
SortedSeq(S) ==
    IF S = {} THEN <<>>
    ELSE LET m == CHOOSE x \in S : \A y \in S : x <= y
         IN <<m>> \o SortedSeq(S \ {m})
GroupStarts == SortedSeq({i \in 1..Len(commands) : commands[i] = T_output})
Group(k) ==
    SubSeq(commands, GroupStarts[k],
           IF k < Len(GroupStarts) THEN GroupStarts[k + 1] - 1 ELSE Len(commands))
Tokens(g) == {g[i] : i \in 1..Len(g)}
ResolvedEntries == SelectSeq(config.monitors, Resolves)
\* the number of the group of entry i, when entry i resolves
GroupOf(i) == Cardinality({j \in 1..i : Resolves(config.monitors[j])})

PositionFails(e) ==
    /\ TruthyStr(e.position)
    /\ \/ ~Contains(e.position, <<" ">>)
       \/ ~TruthyStr(resolve_monitor_keyword(monitors, SplitRest(e.position, " ")).name)

\* C4: for an entry whose name resolves, a failing position clause (no
\* whitespace, or a reference keyword that does not resolve) drops only the
\* position directive: the entry's group is --output <name> --auto, then
\* --primary when primary is true, then --rate <rate> when refresh_rate is
\* present.
C4_PositionFailureOmitsOnlyPosition ==
    AfterManage =>
        \A i \in 1..Len(config.monitors) :
            LET e == config.monitors[i]
                name == resolve_monitor_keyword(monitors, e.name).name
            IN (Resolves(e) /\ PositionFails(e)) =>
                  /\ GroupOf(i) <= Len(GroupStarts)
                  /\ Group(GroupOf(i)) =
                        <<T_output, name, T_auto>>
                        \o (IF e.primary THEN <<T_primary>> ELSE <<>>)
                        \o (IF e.refresh_rate # NoneInt
                            THEN <<T_rate, PyStr(e.refresh_rate)>> ELSE <<>>)

ScenarioA ==
    /\ monitors = <<[name |-> N_eDP1, width |-> 1920, height |-> 1080],
                    [name |-> N_HDMI1, width |-> 2560, height |-> 1440]>>
    /\ config.monitors = <<Entry(K_laptop, FALSE, P_below_largest, NoneInt),
                           Entry(K_largest, TRUE, None, NoneInt)>>
    /\ AfterManage

\* C5 as stated: in Scenario A the command configures HDMI-1 as primary/auto
\* first and then eDP-1 auto below HDMI-1.
C5_ScenarioA_AsStated ==
    ScenarioA =>
        commands = <<T_xrandr, T_output, N_HDMI1, T_auto, T_primary,
                     T_output, N_eDP1, T_auto, T_below, N_HDMI1>>

\* C5 amended: in Scenario A the command follows the declared order of the
\* entries: eDP-1 auto below HDMI-1 first, then HDMI-1 auto and primary.
C5_ScenarioA_DeclaredOrder ==
    ScenarioA =>
        commands = <<T_xrandr, T_output, N_eDP1, T_auto, T_below, N_HDMI1,
                     T_output, N_HDMI1, T_auto, T_primary>>

C5_Witness == ScenarioA /\ ApplyEvents # {}

\* C6: an entry whose name does not resolve contributes no token, and the
\* groups of the entries that resolve appear in the declared order of the
\* entries: the command is 'xrandr' followed by one group per resolved
\* entry, in order, each made of that entry's own directives only.
C6_UnresolvedEntriesSkippedOrderKept ==
    AfterManage =>
        /\ commands[1] = T_xrandr
        /\ Len(commands) > 1 => commands[2] = T_output
        /\ Len(GroupStarts) = Len(ResolvedEntries)
        /\ \A k \in 1..Len(GroupStarts) :
              LET e == ResolvedEntries[k]
                  g == Group(k)
              IN /\ Len(g) >= 3
                 /\ SubSeq(g, 1, 3) =
                       <<T_output, resolve_monitor_keyword(monitors, e.name).name, T_auto>>
                 /\ (T_primary \in Tokens(g)) <=> e.primary
                 /\ (T_rate \in Tokens(g)) => e.refresh_rate # NoneInt
                 /\ Len(g) <= 3 + (IF e.primary THEN 1 ELSE 0)
                                + (IF TruthyStr(e.position) THEN 2 ELSE 0)
                                + (IF e.refresh_rate # NoneInt THEN 2 ELSE 0)

C6_Witness ==
    /\ AfterManage
    /\ Len(config.monitors) >= 2
    /\ ~Resolves(config.monitors[1])
    /\ config.monitors[1].primary
    /\ Resolves(config.monitors[2])
    /\ ApplyEvents # {}

\* C7: xrandr is run to apply a layout only when at least one entry emitted
\* directives, then exactly once and with the built token sequence; when the
\* config has no entries or none of their names resolves it is not run.
C7_ApplyOnlyWithDirectives ==
    /\ ~AfterManage => ApplyEvents = {}
    /\ AfterManage =>
          IF \E i \in 1..Len(config.monitors) : Resolves(config.monitors[i])
          THEN /\ Cardinality(ApplyEvents) = 1
               /\ \A i \in ApplyEvents :
                     /\ trace[i].argv = commands
                     /\ Len(trace[i].argv) > 1
                     /\ trace[i].argv[1] = T_xrandr
          ELSE ApplyEvents = {}

C7_Witness ==
    /\ AfterManage
    /\ config.monitors # <<>>
    /\ \A i \in 1..Len(config.monitors) : ~Resolves(config.monitors[i])
    /\ pc = "exited"
    /\ exitCode = 0

\* the N-th monitor, in inventory order, whose name is not a laptop name
NonLaptopIdx == {p \in 1..Len(monitors) : ~(Contains(monitors[p].name, S_eDP)
                                            \/ Contains(monitors[p].name, S_LVDS))}
NthExternal(n) ==
    IF n <= 0 \/ n > Cardinality(NonLaptopIdx) THEN None
    ELSE monitors[CHOOSE p \in NonLaptopIdx :
                     Cardinality({q \in NonLaptopIdx : q <= p}) = n].name

\* C8: resolve_monitor_keyword(I, 'external-N') is none when N <= 0 or N
\* exceeds the number of monitors of I without a laptop name, otherwise the
\* name of the N-th such monitor in inventory order; a non-numeric suffix
\* yields none.
C8_ExternalKeyword ==
    pc = "resolve_return" =>
        /\ \A n \in (0 - 1)..MaxExternal :
              keyword = ExternalKeyword(n) => resolved = NthExternal(n)
        /\ keyword \in NonNumericExternalKeywords => resolved = None

C8_Witness ==
    /\ pc = "resolve_return"
    /\ keyword = ExternalKeyword(1)
    /\ Len(monitors) = 2
    /\ Contains(monitors[1].name, S_eDP)
    /\ resolved = monitors[2].name

T_off == <<"-", "-", "o", "f", "f">>

\* C9: a monitor recorded in the state loaded at startup that is absent from
\* the current inventory is disabled by the run: --output <name> --off is
\* part of what is passed to xrandr.
C9_VanishedMonitorsDisabled ==
    (pc = "exited" /\ exitCode = 0) =>
        \A name \in state \ InventoryNames :
            \E i \in ApplyEvents :
                \E j \in 1..(Len(trace[i].argv) - 2) :
                    SubSeq(trace[i].argv, j, j + 2) = <<T_output, name, T_off>>

\* C10: every call of resolve_monitor_keyword that returns none emits a
\* warning record and no error record, and does not end the run.
C10_UnresolvedAlwaysWarns ==
    (pc = "resolve_return" /\ resolved = None) =>
        /\ log # <<>>
        /\ \A i \in 1..Len(log) : log[i].level = "WARNING"
        /\ exitCode = NoneInt

=============================================================================
